---- MODULE Spec2Model ----
(***************************************************************************)
(* The agent execution core of super-agent: AssistantAgent.process, its    *)
(* analyzer and planner, BaseAgent._execute_tool and BaseAgent.get_result. *)
(*                                                                         *)
(* process is an async generator.  Between two suspension points (a yield, *)
(* an awaited backend submission, an awaited tool capability) it runs      *)
(* without interruption, so every action below is the code from one        *)
(* suspension point to the next.  The backend model and the tool           *)
(* capabilities are external: what they return or raise is an input.       *)
(***************************************************************************)
EXTENDS Integers, Sequences, FiniteSets, TLC

\* ---------------------------------------------------------------- bounds
MaxRuns == 2        \* process calls made on the one agent instance
MaxPlan == 2        \* entries of a plan returned by the backend
MaxCost == 1        \* largest token cost a reply reports
MemRuns == 11       \* process calls of a long conversation (LongSpec)

MemorySize == 20    \* memory_size handed to BaseAgent.__init__

Runs == {1, 2}                    \* generator objects that may exist at a time
\* process never inspects its message (it goes into the prompts and into the
\* history as it is), so each call is given a text of its own: the n-th call
\* of process carries Messages[n].
Messages == << "m1", "m2", "m3", "m4" >>
ReplyTexts == {"r1"}                  \* response.message of a final reply
Costs == 0..MaxCost               \* response.token_count of a reply
ToolNames == {"a", "b"}           \* names a registry or a plan may use
Registries == {<< >>, <<"a", "b">>, <<"a", "a">>}

None == "None"                    \* Python's None
NoSeq == << >>

\* ------------------------------------------------------ external inputs
\* What self.agent.record_message gives back on the analysis prompt, after
\* json.loads: it raises, the text is no JSON, the JSON is no object, or it
\* is an object with or without a needs_tools key.
AnalysisReplies ==
    { [kind |-> "raise", token_count |-> 0] }
    \cup { [kind |-> k, token_count |-> c] :
              k \in {"malformed", "nondict", "needs_true", "needs_false", "needs_absent"},
              c \in Costs }

\* One entry of the "tools" list of a plan: a mapping that may lack "name",
\* and whose "args" may be unusable as keyword arguments at the call site
\* (no mapping, or a key that collides with the parameter tool_name).
PlanEntries ==
    { [name |-> "a", args |-> "ok"], [name |-> "b", args |-> "ok"],
      [name |-> "a", args |-> "bad"], [name |-> None, args |-> "ok"] }

RECURSIVE SeqsUpTo(_, _)
SeqsUpTo(S, n) ==
    IF n = 0 THEN { << >> }
    ELSE LET shorter == SeqsUpTo(S, n - 1)
         IN  shorter \cup { Append(s, x) : s \in { t \in shorter : Len(t) = n - 1 }, x \in S }

Plans == SeqsUpTo(PlanEntries, MaxPlan)

\* What record_message gives back on the planning prompt.
PlanReplies ==
    { [kind |-> "raise", tools |-> << >>, token_count |-> 0] }
    \cup { [kind |-> k, tools |-> << >>, token_count |-> c] :
              k \in {"malformed", "nondict", "no_tools_key"}, c \in Costs }
    \cup { [kind |-> "tools", tools |-> p, token_count |-> c] : p \in Plans, c \in Costs }

\* What record_message gives back on the final submission: it raises, or it
\* returns an object; the object may lack .message, or carry a token_count
\* that cannot be added to an int.
FinalReplies ==
    { [kind |-> "raise", message |-> None, token_count |-> 0] }
    \cup { [kind |-> "ok", message |-> t, token_count |-> c] : t \in ReplyTexts, c \in Costs }
    \cup { [kind |-> "no_message", message |-> None, token_count |-> c] : c \in Costs }
    \cup { [kind |-> "bad_cost", message |-> t, token_count |-> 0] : t \in ReplyTexts }

\* What awaiting a tool capability gives: a payload, or an exception.
ToolOutcomes ==
    { [kind |-> "returns", value |-> "payload"], [kind |-> "raises", value |-> "tool failed"] }

\* ------------------------------------------------------------ the state
VARIABLES
    agent,          \* self.agent is set (TRUE) or None (FALSE)
    tools,          \* self.tools: the registry, a sequence of tool names
    status,         \* self.status
    chat_history,   \* self.chat_history: sequence of turns
    token_count,    \* self.token_count
    nruns,          \* process calls made so far
    pc,             \* per generator: where it is suspended
    message,        \* per generator: the argument of process
    tools_to_use,   \* per generator: the plan
    idx,            \* per generator: position of the for loop in the plan
    tool_results,   \* per generator: the list tool_results
    response,       \* per generator: the reply to the final submission
    updates,        \* per generator: the updates yielded so far
    log,            \* per generator: collaborator calls made, in order
    histBefore,     \* per generator: chat_history when process was called
    tokBefore,      \* per generator: token_count when process was called
    escaped,        \* per generator: an exception left process
    clock,          \* time.time(), counted in reads since self.start_time was set
    start_time,     \* self.start_time, on the same scale
    elapsed,        \* per generator: the elapsed field of each update yielded
    reported,       \* per generator: the reply its last step received, and its cost
    final_turn      \* per generator: the turn it submitted for the final reply

vars == << agent, tools, status, chat_history, token_count, nruns, pc, message,
           tools_to_use, idx, tool_results, response, updates, log, histBefore,
           tokBefore, escaped, clock, start_time, elapsed, reported, final_turn >>

\* The local response before the final submission has returned.
NoReply == [kind |-> None, message |-> None, token_count |-> 0]

\* ------------------------------------------------------- pure operators
\* The token_count a reply of record_message reports, by the prompt it
\* answers; no reply, or none with a usable token_count, is NoCall.
NoCall == [name |-> None, cost |-> 0]
Reported(name, reply) ==
    IF reply.kind \in {"raise", "bad_cost"} THEN NoCall
    ELSE [name |-> name, cost |-> reply.token_count]

Set(f, r, v) == [f EXCEPT ![r] = v]

Turn(role, content) == [role |-> role, content |-> content]

\* The task argument of _update_status: a fixed text, or a text built from
\* tool names (f"Using tools: {', '.join(...)}", f"Executed {name}").
Task(text, names) == [text |-> text, names |-> names]
NoTask == Task(None, NoSeq)

\* error_msg = f"Error processing message: {str(e)}"; None is the empty sequence.
NoError == NoSeq

\* ErrorMsg with a fixed text in place of str(e).
ErrorMsgWithoutCause(e) == << "Error processing message: ", "unknown" >>

ErrorMsg(e) == << "Error processing message: ", e >>

\* AssistantAgent._update_status: builds the update dict and returns it.
UpdateStatus(st, task, error) == [status |-> st, task |-> task, error |-> error]

\* Elapsed with the operands of the subtraction exchanged.
ElapsedReversed(now, start) == start - now

\* elapsed = time.time() - self.start_time in AssistantAgent._update_status.
Elapsed(now, start) == now - start

\* self.status after AssistantAgent._update_status(st): the override never
\* assigns self.status (only BaseAgent._update_status does), so it keeps its
\* old value.
StatusAfterUpdate(old, st) == old

\* The default classification of _analyze_request.
DefaultAnalysis == "needs_false"

\* AnalyzeRequest with a fallback classification that asks for tools.
AnalyzeRequestToolsByDefault(reply) ==
    IF reply.kind = "malformed" THEN "needs_true" ELSE reply.kind

\* _analyze_request after the backend replied: json.loads(response.message)
\* in try / bare except; whatever json.loads returns is returned unchanged.
AnalyzeRequest(reply) ==
    IF reply.kind = "malformed" THEN DefaultAnalysis ELSE reply.kind

\* analysis.get("needs_tools", False) at process line 70: on a parsed value
\* that is no mapping the attribute lookup raises.
NeedsToolsRaises(analysis) == analysis = "nondict"
NeedsTools(analysis) == analysis = "needs_true"

\* _plan_tool_usage after the backend replied: json.loads, then
\* plan.get("tools", []), both inside try / bare except returning [].
PlanToolUsage(reply) ==
    IF reply.kind \in {"malformed", "nondict", "no_tools_key"} THEN << >> ELSE reply.tools

\* AnalyzerSkips without the check of self.agent.
AnalyzerNeverSkips == FALSE

\* The early return of _analyze_request: no backend.
AnalyzerSkips == ~agent

\* PlannerSkips without the check of self.tools.
PlannerSkipsWithoutBackendOnly == ~agent

\* PlannerSkips without the early return.
PlannerNeverSkips == FALSE

\* The early return of _plan_tool_usage: no tools registered or no backend.
PlannerSkips == tools = << >> \/ ~agent

\* NamesOf with the names joined in reverse order.
NamesReversed(plan) == [i \in 1..Len(plan) |-> plan[Len(plan) + 1 - i].name]

\* ', '.join(t['name'] for t in tools_to_use) raises on an entry without name.
NamesOf(plan) == [i \in 1..Len(plan) |-> plan[i].name]
JoinRaises(plan) == \E i \in 1..Len(plan) : plan[i].name = None

\* FindTool falling back on the first registered tool for an unknown name.
FindToolOrFirst(tool_name) ==
    IF \E i \in 1..Len(tools) : tools[i] = tool_name
    THEN CHOOSE i \in 1..Len(tools) :
            /\ tools[i] = tool_name
            /\ \A j \in 1..(i - 1) : tools[j] # tool_name
    ELSE IF tools = << >> THEN 0 ELSE 1

\* FindTool with a registry keyed by name, where the tool registered last
\* under a name replaces the earlier ones.
FindToolLast(tool_name) ==
    IF \E i \in 1..Len(tools) : tools[i] = tool_name
    THEN CHOOSE i \in 1..Len(tools) :
            /\ tools[i] = tool_name
            /\ \A j \in (i + 1)..Len(tools) : tools[j] # tool_name
    ELSE 0

\* next((t for t in self.tools if t["name"] == tool_name), None): the index
\* of the first registered tool of that name, 0 for None.
FindTool(tool_name) ==
    IF \E i \in 1..Len(tools) : tools[i] = tool_name
    THEN CHOOSE i \in 1..Len(tools) :
            /\ tools[i] = tool_name
            /\ \A j \in 1..(i - 1) : tools[j] # tool_name
    ELSE 0

\* ToolCatches with an except clause for the lookup's ValueError alone.
ToolCatchesValueErrorOnly(exc) == exc = "ValueError"

\* The except clause of _execute_tool: which exceptions raised in its try
\* body it converts into a failure result (all of them).
ToolCatches(exc) == TRUE

\* _execute_tool for a name that is not registered: ValueError in the try body.
ToolNotFound(tool_name) ==
    IF ToolCatches("ValueError")
    THEN [escapes |-> FALSE, success |-> FALSE, result |-> None, error |-> "Tool not found"]
    ELSE [escapes |-> TRUE, success |-> FALSE, result |-> None, error |-> "Tool not found"]

\* _execute_tool once the awaited capability has returned or raised.
ToolCompleted(outcome) ==
    IF outcome.kind = "returns"
    THEN [escapes |-> FALSE, success |-> TRUE, result |-> outcome.value, error |-> None]
    ELSE IF ToolCatches("Exception")
    THEN [escapes |-> FALSE, success |-> FALSE, result |-> None, error |-> outcome.value]
    ELSE [escapes |-> TRUE, success |-> FALSE, result |-> None, error |-> outcome.value]

\* BaseAgent.get_result
GetResult ==
    [ success |-> status = "DONE",
      message |-> IF chat_history = << >> THEN "" ELSE chat_history[Len(chat_history)].content,
      chat_history |-> chat_history,
      token_count |-> token_count,
      error |-> IF status # "ERROR" THEN None ELSE "Execution failed" ]

\* InTry with the try block closed before the final submission.
InTryBeforeResponse(phase) == phase \notin {"response", "bookkeeping"}

\* The try block of process spans every statement of the run (lines 57-132).
InTry(phase) == TRUE

Entry(ev, name, k, out, r) ==
    [ev |-> ev, name |-> name, k |-> k, out |-> out, at |-> Len(updates[r])]

\* No turn submitted yet.
NoTurn == [content |-> None, role_name |-> None, meta_dict |-> << >>]

\* The final turn with the tool results handed to the backend in meta_dict.
FinalTurnWithResults(m, results) ==
    [content |-> m, role_name |-> "user", meta_dict |-> results]

\* The turn submitted for the final reply: BaseMessage(content=message,
\* role_name="user", role_type="user", meta_dict={}) (lines 105-110).  The
\* tool results of the run are in scope and are not used.
FinalTurn(m, results) ==
    [content |-> m, role_name |-> "user", meta_dict |-> << >>]

\* --------------------------------------------------------- step endings
\* Yield with AgentStatus.WAITING passed where EXECUTING is meant.
YieldWaiting(r, st, task, next) ==
    /\ updates' = Set(updates, r,
                      Append(updates[r],
                             UpdateStatus(IF st = "EXECUTING" THEN "WAITING" ELSE st,
                                          task, NoError)))
    /\ status' = StatusAfterUpdate(status, st)
    /\ pc' = Set(pc, r, next)
    /\ escaped' = escaped
    /\ clock' = clock + 1
    /\ elapsed' = Set(elapsed, r, Append(elapsed[r], Elapsed(clock + 1, start_time)))

\* The run reaches a yield: _update_status reads the clock and builds the
\* update, which is handed to the consumer.
Yield(r, st, task, next) ==
    /\ updates' = Set(updates, r, Append(updates[r], UpdateStatus(st, task, NoError)))
    /\ status' = StatusAfterUpdate(status, st)
    /\ pc' = Set(pc, r, next)
    /\ escaped' = escaped
    /\ clock' = clock + 1
    /\ elapsed' = Set(elapsed, r, Append(elapsed[r], Elapsed(clock + 1, start_time)))

\* The run reaches an await of a collaborator.
Await(r, next) ==
    /\ pc' = Set(pc, r, next)
    /\ UNCHANGED << updates, status, escaped, clock, elapsed >>

\* Raise with the exception swallowed: the generator returns without an update.
RaiseSilently(r, phase, e) ==
    /\ pc' = Set(pc, r, "finished")
    /\ UNCHANGED << updates, status, escaped, clock, elapsed >>

\* Raise with a handler that goes on to the final DONE update after ERROR.
RaiseThenDone(r, phase, e) ==
    /\ updates' = Set(updates, r,
                      Append(Append(updates[r], UpdateStatus("ERROR", NoTask, ErrorMsg(e))),
                             UpdateStatus("DONE", NoTask, NoError)))
    /\ status' = StatusAfterUpdate(status, "DONE")
    /\ pc' = Set(pc, r, "yield_done")
    /\ escaped' = escaped
    /\ clock' = clock + 2
    /\ elapsed' = Set(elapsed, r, Append(Append(elapsed[r], Elapsed(clock + 1, start_time)),
                                         Elapsed(clock + 2, start_time)))

\* An exception e is raised in the given phase: the handler of process
\* yields the ERROR update; outside the try it would leave the generator.
Raise(r, phase, e) ==
    IF InTry(phase)
    THEN /\ updates' = Set(updates, r,
                           Append(updates[r], UpdateStatus("ERROR", NoTask, ErrorMsg(e))))
         /\ status' = StatusAfterUpdate(status, "ERROR")
         /\ pc' = Set(pc, r, "yield_error")
         /\ escaped' = escaped
         /\ clock' = clock + 1
         /\ elapsed' = Set(elapsed, r, Append(elapsed[r], Elapsed(clock + 1, start_time)))
    ELSE /\ pc' = Set(pc, r, "finished")
         /\ escaped' = Set(escaped, r, TRUE)
         /\ UNCHANGED << updates, status, clock, elapsed >>

Active(r) == pc[r] \notin {"idle", "finished", "cancelled"}

\* Single run per instance: no other generator is between its start and its end.
NoOtherRun(r) == \A q \in Runs \ {r} : ~Active(q)

\* ----------------------------------------------------------------- Init
Init ==
    /\ agent \in BOOLEAN
    /\ tools \in Registries
    /\ status = "IDLE"
    /\ chat_history = << >>
    /\ token_count = 0
    /\ nruns = 0
    /\ pc = [r \in Runs |-> "idle"]
    /\ message = [r \in Runs |-> None]
    /\ tools_to_use = [r \in Runs |-> << >>]
    /\ idx = [r \in Runs |-> 0]
    /\ tool_results = [r \in Runs |-> << >>]
    /\ response = [r \in Runs |-> NoReply]
    /\ updates = [r \in Runs |-> << >>]
    /\ log = [r \in Runs |-> << >>]
    /\ histBefore = [r \in Runs |-> << >>]
    /\ tokBefore = [r \in Runs |-> 0]
    /\ escaped = [r \in Runs |-> FALSE]
    /\ clock = 0
    /\ start_time = None
    /\ elapsed = [r \in Runs |-> << >>]
    /\ reported = [r \in Runs |-> NoCall]
    /\ final_turn = [r \in Runs |-> NoTurn]

\* -------------------------------------------------------------- actions
\* process(m) is called and driven to its first yield (lines 57-64).  The
\* generator objects of runs that have ended are gone.  self.start_time is
\* the only time kept, so time is counted from its assignment: that read of
\* the clock gives 0, the read in _update_status the next value.
StartRunWithin(r, m, limit) ==
    /\ ~Active(r)
    /\ nruns < limit
    /\ nruns' = nruns + 1
    /\ message' = [q \in Runs |-> IF q = r THEN m ELSE IF Active(q) THEN message[q] ELSE None]
    /\ tools_to_use' = [q \in Runs |-> IF Active(q) /\ q # r THEN tools_to_use[q] ELSE << >>]
    /\ idx' = [q \in Runs |-> IF Active(q) /\ q # r THEN idx[q] ELSE 0]
    /\ tool_results' = [q \in Runs |-> IF Active(q) /\ q # r THEN tool_results[q] ELSE << >>]
    /\ response' = [q \in Runs |-> IF Active(q) /\ q # r THEN response[q] ELSE NoReply]
    /\ log' = [q \in Runs |-> IF Active(q) /\ q # r THEN log[q] ELSE << >>]
    /\ histBefore' = [q \in Runs |-> IF q = r THEN chat_history
                                     ELSE IF Active(q) THEN histBefore[q] ELSE << >>]
    /\ tokBefore' = [q \in Runs |-> IF q = r THEN token_count
                                    ELSE IF Active(q) THEN tokBefore[q] ELSE 0]
    /\ escaped' = [q \in Runs |-> IF Active(q) /\ q # r THEN escaped[q] ELSE FALSE]
    /\ updates' = [q \in Runs |->
                     IF q = r
                     THEN << UpdateStatus("THINKING", Task("Understanding your request", NoSeq), NoError) >>
                     ELSE IF Active(q) THEN updates[q] ELSE << >>]
    /\ pc' = [q \in Runs |-> IF q = r THEN "yield_understanding"
                             ELSE IF Active(q) THEN pc[q] ELSE "idle"]
    /\ status' = StatusAfterUpdate(status, "THINKING")
    /\ start_time' = 0
    /\ clock' = 1
    /\ elapsed' = [q \in Runs |-> IF q = r THEN << Elapsed(1, 0) >>
                                  ELSE IF Active(q) THEN elapsed[q] ELSE << >>]
    /\ reported' = [q \in Runs |-> IF Active(q) /\ q # r THEN reported[q] ELSE NoCall]
    /\ final_turn' = [q \in Runs |-> IF Active(q) /\ q # r THEN final_turn[q] ELSE NoTurn]
    /\ UNCHANGED << agent, tools, chat_history, token_count >>

\* The model is explored up to MaxRuns calls of process.
StartRun(r, m) == StartRunWithin(r, m, MaxRuns)

\* A new generator takes the first slot that holds no running one.
FirstFree(r) == \A q \in Runs : q < r => Active(q)

Start(r, m) == NoOtherRun(r) /\ FirstFree(r) /\ StartRun(r, m)

\* The consumer asks for the next update after the first one:
\* _analyze_request up to its await, or its early return when self.agent
\* is None (lines 67, 155-183), and then on to "Generating response".
Analyze(r) ==
    /\ pc[r] = "yield_understanding"
    /\ reported' = Set(reported, r, NoCall)
    /\ UNCHANGED final_turn
    /\ IF AnalyzerSkips
       THEN /\ Yield(r, "THINKING", Task("Generating response", NoSeq), "yield_generating")
            /\ log' = Set(log, r, Append(log[r], Entry("analyze", None, 0, "default", r)))
       ELSE /\ Await(r, "await_analysis")
            /\ log' = Set(log, r, Append(log[r], Entry("submit", "analysis", 0, None, r)))
    /\ UNCHANGED << agent, tools, start_time, chat_history, token_count, nruns, message, tools_to_use,
                    idx, tool_results, response, histBefore, tokBefore >>

\* The backend answers the analysis prompt (lines 176-196, 70-74, 98-101).
AnalysisReply(r, reply) ==
    /\ pc[r] = "await_analysis"
    /\ reported' = Set(reported, r, Reported("analysis", reply))
    /\ UNCHANGED final_turn
    /\ IF reply.kind = "raise"
       THEN Raise(r, "analysis", "backend failure")
       ELSE IF NeedsToolsRaises(AnalyzeRequest(reply))
       THEN Raise(r, "analysis", "AttributeError")
       ELSE IF NeedsTools(AnalyzeRequest(reply))
       THEN Yield(r, "THINKING", Task("Planning tool usage", NoSeq), "yield_planning")
       ELSE Yield(r, "THINKING", Task("Generating response", NoSeq), "yield_generating")
    /\ log' = Set(log, r, Append(log[r], Entry("reply", "analysis", 0, reply.kind, r)))
    /\ UNCHANGED << agent, tools, start_time, chat_history, token_count, nruns, message, tools_to_use,
                    idx, tool_results, response, histBefore, tokBefore >>

\* The consumer asks for the next update after a terminal one: the
\* generator returns (StopAsyncIteration).
Finish(r) ==
    /\ pc[r] \in {"yield_done", "yield_error"}
    /\ reported' = Set(reported, r, NoCall)
    /\ UNCHANGED final_turn
    /\ pc' = Set(pc, r, "finished")
    /\ UNCHANGED << agent, tools, status, chat_history, token_count, nruns, message,
                    tools_to_use, idx, tool_results, response, updates, log, histBefore,
                    tokBefore, escaped, clock, start_time, elapsed >>

\* The consumer asks for the next update after "Planning tool usage":
\* _plan_tool_usage up to its await, or its early return (lines 75, 209-236).
Plan(r) ==
    /\ pc[r] = "yield_planning"
    /\ reported' = Set(reported, r, NoCall)
    /\ UNCHANGED final_turn
    /\ IF PlannerSkips
       THEN /\ Yield(r, "THINKING", Task("Generating response", NoSeq), "yield_generating")
            /\ log' = Set(log, r, Append(log[r], Entry("plan", None, 0, "skipped", r)))
       ELSE /\ Await(r, "await_plan")
            /\ log' = Set(log, r, Append(log[r], Entry("submit", "plan", 0, None, r)))
    /\ UNCHANGED << agent, tools, start_time, chat_history, token_count, nruns, message, tools_to_use,
                    idx, tool_results, response, histBefore, tokBefore >>

\* The backend answers the planning prompt (lines 229-244, 78-83, 98-101).
PlanReply(r, reply) ==
    /\ pc[r] = "await_plan"
    /\ reported' = Set(reported, r, Reported("plan", reply))
    /\ UNCHANGED final_turn
    /\ IF reply.kind = "raise"
       THEN /\ Raise(r, "planning", "backend failure")
            /\ UNCHANGED << tools_to_use, idx >>
       ELSE /\ tools_to_use' = Set(tools_to_use, r, PlanToolUsage(reply))
            /\ idx' = Set(idx, r, 1)
            /\ IF PlanToolUsage(reply) = << >>
               THEN Yield(r, "THINKING", Task("Generating response", NoSeq), "yield_generating")
               ELSE IF JoinRaises(PlanToolUsage(reply))
               THEN Raise(r, "tools", "KeyError")
               ELSE Yield(r, "EXECUTING", Task("Using tools", NamesOf(PlanToolUsage(reply))),
                          "yield_using")
    /\ log' = Set(log, r, Append(log[r], Entry("reply", "plan", 0, reply.kind, r)))
    /\ UNCHANGED << agent, tools, start_time, chat_history, token_count, nruns, message,
                    tool_results, response, histBefore, tokBefore >>

\* InvokeTool with the await of the capability left out: the call is made
\* and the loop goes on without its result.
InvokeToolWithoutAwait(r) ==
    /\ pc[r] \in {"yield_using", "yield_executed"}
    /\ reported' = Set(reported, r, NoCall)
    /\ UNCHANGED final_turn
    /\ idx[r] <= Len(tools_to_use[r])
    /\ LET tool == tools_to_use[r][idx[r]]
           k == FindTool(tool.name)
           res == ToolNotFound(tool.name)
       IN  IF tool.args = "bad"
           THEN /\ Raise(r, "tools", "TypeError")
                /\ UNCHANGED << tool_results, idx, log >>
           ELSE /\ tool_results' = Set(tool_results, r, Append(tool_results[r], res))
                /\ idx' = Set(idx, r, idx[r] + 1)
                /\ log' = Set(log, r, Append(log[r],
                                 IF k # 0 THEN Entry("invoke", tool.name, k, None, r)
                                 ELSE Entry("done", tool.name, 0, "notfound", r)))
                /\ Yield(r, "EXECUTING", Task("Executed", << tool.name >>), "yield_executed")
    /\ UNCHANGED << agent, tools, start_time, chat_history, token_count, nruns, message,
                    tools_to_use, response, histBefore, tokBefore >>

\* The consumer asks for the next update while planned tools are left: the
\* call self._execute_tool(tool["name"], **tool.get("args", {})) up to the
\* await of the capability (lines 84-88, base.py 129-136), or, for a name
\* that is not registered, through to the next yield (lines 89-95).
InvokeTool(r) ==
    /\ pc[r] \in {"yield_using", "yield_executed"}
    /\ reported' = Set(reported, r, NoCall)
    /\ UNCHANGED final_turn
    /\ idx[r] <= Len(tools_to_use[r])
    /\ LET tool == tools_to_use[r][idx[r]]
           k == FindTool(tool.name)
           res == ToolNotFound(tool.name)
       IN  IF tool.args = "bad"
           THEN /\ Raise(r, "tools", "TypeError")
                /\ UNCHANGED << tool_results, idx, log >>
           ELSE IF k # 0
           THEN /\ Await(r, "await_tool")
                /\ log' = Set(log, r, Append(log[r], Entry("invoke", tool.name, k, None, r)))
                /\ UNCHANGED << tool_results, idx >>
           ELSE IF res.escapes
           THEN /\ Raise(r, "tools", "ValueError")
                /\ UNCHANGED << tool_results, idx, log >>
           ELSE /\ tool_results' = Set(tool_results, r, Append(tool_results[r], res))
                /\ idx' = Set(idx, r, idx[r] + 1)
                /\ log' = Set(log, r, Append(log[r], Entry("done", tool.name, 0, "notfound", r)))
                /\ Yield(r, "EXECUTING", Task("Executed", << tool.name >>), "yield_executed")
    /\ UNCHANGED << agent, tools, start_time, chat_history, token_count, nruns, message, tools_to_use,
                    response, histBefore, tokBefore >>

\* ToolReply with the tool's result also stored as a turn of chat_history.
ToolReplyRemembers(r, outcome) ==
    /\ pc[r] = "await_tool"
    /\ reported' = Set(reported, r, NoCall)
    /\ UNCHANGED final_turn
    /\ LET tool == tools_to_use[r][idx[r]]
           res == ToolCompleted(outcome)
       IN  /\ tool_results' = Set(tool_results, r, Append(tool_results[r], res))
           /\ idx' = Set(idx, r, idx[r] + 1)
           /\ log' = Set(log, r, Append(log[r],
                            Entry("done", tool.name, FindTool(tool.name), outcome.kind, r)))
           /\ chat_history' = Append(chat_history, Turn("tool", outcome.value))
           /\ Yield(r, "EXECUTING", Task("Executed", << tool.name >>), "yield_executed")
    /\ UNCHANGED << agent, tools, start_time, token_count, nruns, message, tools_to_use,
                    response, histBefore, tokBefore >>

\* The awaited capability returns or raises (base.py 136-149, lines 89-95).
ToolReply(r, outcome) ==
    /\ pc[r] = "await_tool"
    /\ reported' = Set(reported, r, NoCall)
    /\ UNCHANGED final_turn
    /\ LET tool == tools_to_use[r][idx[r]]
           res == ToolCompleted(outcome)
       IN  IF res.escapes
           THEN /\ Raise(r, "tools", outcome.value)
                /\ UNCHANGED << tool_results, idx, log >>
           ELSE /\ tool_results' = Set(tool_results, r, Append(tool_results[r], res))
                /\ idx' = Set(idx, r, idx[r] + 1)
                /\ log' = Set(log, r, Append(log[r],
                                 Entry("done", tool.name, FindTool(tool.name), outcome.kind, r)))
                /\ Yield(r, "EXECUTING", Task("Executed", << tool.name >>), "yield_executed")
    /\ UNCHANGED << agent, tools, start_time, chat_history, token_count, nruns, message, tools_to_use,
                    response, histBefore, tokBefore >>

\* The consumer asks for the next update after the last planned tool: the
\* loop ends and the run goes on to "Generating response" (lines 97-101).
Generate(r) ==
    /\ pc[r] = "yield_executed"
    /\ reported' = Set(reported, r, NoCall)
    /\ UNCHANGED final_turn
    /\ idx[r] > Len(tools_to_use[r])
    /\ Yield(r, "THINKING", Task("Generating response", NoSeq), "yield_generating")
    /\ UNCHANGED << agent, tools, start_time, chat_history, token_count, nruns, message, tools_to_use,
                    idx, tool_results, response, log, histBefore, tokBefore >>

\* Respond with a fallback when self.agent is None: the run ends in DONE
\* without a submission.
RespondWithFallback(r) ==
    /\ pc[r] = "yield_generating"
    /\ reported' = Set(reported, r, NoCall)
    /\ IF ~agent
       THEN /\ Yield(r, "DONE", NoTask, "yield_done")
            /\ UNCHANGED << log, final_turn >>
       ELSE /\ Await(r, "await_final")
            /\ log' = Set(log, r, Append(log[r], Entry("submit", "final", 0, None, r)))
            /\ final_turn' = Set(final_turn, r, FinalTurn(message[r], tool_results[r]))
    /\ UNCHANGED << agent, tools, start_time, chat_history, token_count, nruns, message, tools_to_use,
                    idx, tool_results, response, histBefore, tokBefore >>

\* The consumer asks for the next update after "Generating response": the
\* final submission self.agent.record_message(...) (lines 104-111); with
\* self.agent None the attribute lookup raises.
Respond(r) ==
    /\ pc[r] = "yield_generating"
    /\ reported' = Set(reported, r, NoCall)
    /\ IF ~agent
       THEN /\ Raise(r, "response", "AttributeError")
            /\ UNCHANGED << log, final_turn >>
       ELSE /\ Await(r, "await_final")
            /\ log' = Set(log, r, Append(log[r], Entry("submit", "final", 0, None, r)))
            /\ final_turn' = Set(final_turn, r, FinalTurn(message[r], tool_results[r]))
    /\ UNCHANGED << agent, tools, start_time, chat_history, token_count, nruns, message, tools_to_use,
                    idx, tool_results, response, histBefore, tokBefore >>

\* HistoryAfterReply with the history assigned where it is appended to.
HistoryRestarted(hist, m, reply) ==
    CASE reply.kind = "raise" -> hist
      [] reply.kind = "no_message" -> << Turn("user", m) >>
      [] OTHER -> << Turn("user", m), Turn("assistant", reply.message) >>

\* The statements of lines 113-126, in order, as far as the reply lets them run.
HistoryAfterReply(hist, m, reply) ==
    CASE reply.kind = "raise" -> hist
      [] reply.kind = "no_message" -> Append(hist, Turn("user", m))
      [] OTHER -> Append(Append(hist, Turn("user", m)), Turn("assistant", reply.message))

\* TokensAfterReply with the token bookkeeping done before the turns are
\* appended: it then runs also for a reply without message.
TokensBeforeTurns(tok, reply) ==
    IF reply.kind \in {"ok", "no_message"} THEN tok + reply.token_count ELSE tok

\* TokensAfterReply with = written for +=.
TokensOverwritten(tok, reply) ==
    IF reply.kind = "ok" THEN reply.token_count ELSE tok

TokensAfterReply(tok, reply) ==
    IF reply.kind = "ok" THEN tok + reply.token_count ELSE tok

\* The backend answers the final submission (lines 104-132).
FinalReply(r, reply) ==
    /\ pc[r] = "await_final"
    /\ reported' = Set(reported, r, Reported("final", reply))
    /\ UNCHANGED final_turn
    /\ chat_history' = HistoryAfterReply(chat_history, message[r], reply)
    /\ token_count' = TokensAfterReply(token_count, reply)
    /\ CASE reply.kind = "raise" -> Raise(r, "response", "backend failure")
         [] reply.kind = "no_message" -> Raise(r, "bookkeeping", "AttributeError")
         [] reply.kind = "bad_cost" -> Raise(r, "bookkeeping", "TypeError")
         [] OTHER -> Yield(r, "DONE", NoTask, "yield_done")
    /\ log' = Set(log, r, Append(log[r], Entry("reply", "final", 0, reply.kind, r)))
    /\ response' = Set(response, r, reply)
    /\ UNCHANGED << agent, tools, start_time, nruns, message, tools_to_use, idx, tool_results,
                    histBefore, tokBefore >>

\* The consumer stops asking for updates (break out of the async for, as
\* the consumer of test_error_handling does): the generator, suspended at a
\* yield, is closed there.  GeneratorExit is no Exception, so the handler of
\* line 134 does not run and no statement after the yield is executed.
Cancel(r) ==
    /\ pc[r] \in {"yield_understanding", "yield_planning", "yield_using", "yield_executed",
                  "yield_generating", "yield_done", "yield_error"}
    /\ pc' = Set(pc, r, "cancelled")
    /\ UNCHANGED << agent, tools, status, chat_history, token_count, nruns, message,
                    tools_to_use, idx, tool_results, response, updates, log, histBefore,
                    tokBefore, escaped, clock, start_time, elapsed, reported,
                    final_turn >>

\* ------------------------------------------------------ specifications
Step(r) ==
    \/ Analyze(r)
    \/ \E reply \in AnalysisReplies : AnalysisReply(r, reply)
    \/ Plan(r)
    \/ \E reply \in PlanReplies : PlanReply(r, reply)
    \/ InvokeTool(r)
    \/ \E outcome \in ToolOutcomes : ToolReply(r, outcome)
    \/ Generate(r)
    \/ Respond(r)
    \/ \E reply \in FinalReplies : FinalReply(r, reply)
    \/ Finish(r)

\* One run at a time on the instance, as the single-run discipline requires.
Next ==
    \/ \E r \in Runs : Start(r, Messages[nruns + 1])
    \/ \E r \in Runs : Step(r)

Spec == Init /\ [][Next]_vars

\* Every awaited call returns or raises and the consumer drains the stream:
\* a suspended run is resumed.  With one run at a time this is fairness of
\* the steps of that run.
FairSpec == Spec /\ WF_vars(\E r \in Runs : Step(r))

\* The consumer may also stop observing a run at any update.
NextCancel ==
    \/ Next
    \/ \E r \in Runs : Cancel(r)

CancelSpec == Init /\ [][NextCancel]_vars

\* A long conversation: up to MemRuns calls of process, one after the other,
\* on an agent with a backend and no tools, the backend answering every
\* prompt with a well-formed reply.
LongMessages == {"m1"}
InitLong == Init /\ agent /\ tools = << >>

NextLong ==
    \/ \E r \in Runs, m \in LongMessages :
          NoOtherRun(r) /\ FirstFree(r) /\ StartRunWithin(r, m, MemRuns)
    \/ \E r \in Runs : Analyze(r)
    \/ \E r \in Runs, reply \in AnalysisReplies :
          reply.kind = "needs_false" /\ AnalysisReply(r, reply)
    \/ \E r \in Runs : Respond(r)
    \/ \E r \in Runs, reply \in FinalReplies : reply.kind = "ok" /\ FinalReply(r, reply)
    \/ \E r \in Runs : Finish(r)

LongSpec == InitLong /\ [][NextLong]_vars

\* Several calls of process on the one instance, interleaved at their
\* suspension points: a call may be made while earlier runs are suspended.
\* The agent has a backend and no tools.
InitConc == Init /\ agent /\ tools = << >>

NextConc ==
    \/ \E r \in Runs : FirstFree(r) /\ StartRun(r, Messages[nruns + 1])
    \/ \E r \in Runs : Analyze(r)
    \/ \E r \in Runs, reply \in AnalysisReplies : AnalysisReply(r, reply)
    \/ \E r \in Runs : Plan(r)
    \/ \E r \in Runs : Respond(r)
    \/ \E r \in Runs, reply \in FinalReplies : FinalReply(r, reply)
    \/ \E r \in Runs : Finish(r)

ConcSpec == InitConc /\ [][NextConc]_vars

\* Two calls of process with the same message, one after the other, on an
\* agent with a backend and two tools; the consumer keeps both generators.
\* The backend answers both calls alike (tools are needed, the same plan of
\* entries with usable arguments, a well-formed final reply); what the
\* planned tools return, or whether they fail, is free in each call.
InitTwin == Init /\ agent /\ tools = << "a", "b" >>

SamePlan(r, reply) ==
    \A q \in Runs \ {r} : Active(q) => tools_to_use[q] = PlanToolUsage(reply)

NextTwin ==
    \/ \E r \in Runs :
          /\ FirstFree(r)
          /\ \A q \in Runs \ {r} : pc[q] \in {"idle", "yield_done"}
          /\ StartRun(r, Messages[1])
    \/ \E r \in Runs : Analyze(r)
    \/ \E r \in Runs, reply \in AnalysisReplies :
          reply.kind = "needs_true" /\ reply.token_count = 0 /\ AnalysisReply(r, reply)
    \/ \E r \in Runs : Plan(r)
    \/ \E r \in Runs, reply \in PlanReplies :
          /\ reply.kind = "tools" /\ reply.token_count = 0
          /\ \A i \in 1..Len(reply.tools) : reply.tools[i].args = "ok"
          /\ SamePlan(r, reply)
          /\ PlanReply(r, reply)
    \/ \E r \in Runs : InvokeTool(r)
    \/ \E r \in Runs, outcome \in ToolOutcomes : ToolReply(r, outcome)
    \/ \E r \in Runs : Generate(r)
    \/ \E r \in Runs : Respond(r)
    \/ \E r \in Runs, reply \in FinalReplies : reply.kind = "ok" /\ FinalReply(r, reply)

TwinSpec == InitTwin /\ [][NextTwin]_vars

\* =============================================================== claims
Last(s) == s[Len(s)]
Terminal(u) == u.status \in {"DONE", "ERROR"}
Drained(r) == pc[r] = "finished"
Ended(r, st) ==
    /\ pc[r] \in {"yield_done", "yield_error", "finished"}
    /\ updates[r] # << >>
    /\ Last(updates[r]).status = st
Logged(r, ev, name, outs) ==
    \E i \in 1..Len(log[r]) :
        log[r][i].ev = ev /\ log[r][i].name = name /\ log[r][i].out \in outs

\* C1: when every awaited call returns or raises and the consumer drains the
\* stream, every run of process that has started comes to its end (the
\* stream is finite), and the drained stream then holds at least one update,
\* the last of which has status DONE or ERROR.
C1_StreamEndsTerminal ==
    \A r \in Runs :
        Active(r) ~> (/\ Drained(r)
                      /\ Len(updates[r]) >= 1
                      /\ Terminal(Last(updates[r])))

C1_Witness ==
    \E r \in Runs :
        Drained(r) /\ Len(updates[r]) >= 4 /\ Last(updates[r]).status = "DONE"

\* C2 (as claimed): after a run whose last update is ERROR the chat history
\* is what it was when the run started.
C2_ErroredRunKeepsHistory ==
    \A r \in Runs : Ended(r, "ERROR") => chat_history = histBefore[r]

\* C3 (as claimed): after a run whose last update is DONE the history is the
\* pre-run history, the user turn and the assistant turn, and token_count is
\* strictly greater than before, by the reply's cost.
C3_StrictlyMoreTokens ==
    \A r \in Runs :
        Ended(r, "DONE") =>
            /\ chat_history = histBefore[r]
                                \o << Turn("user", message[r]),
                                      Turn("assistant", response[r].message) >>
            /\ token_count = tokBefore[r] + response[r].token_count
            /\ token_count > tokBefore[r]

\* C3 (amended): after a run whose last update is DONE the history is the
\* pre-run history followed by the user turn carrying the message and the
\* assistant turn carrying the reply text, and token_count is its pre-run
\* value plus the reply's cost: strictly greater exactly when the cost is
\* positive, unchanged when the reply reports a cost of 0.
C3_TwoTurnsAndCost ==
    \A r \in Runs :
        Ended(r, "DONE") =>
            /\ Len(chat_history) = Len(histBefore[r]) + 2
            /\ SubSeq(chat_history, 1, Len(histBefore[r])) = histBefore[r]
            /\ chat_history[Len(histBefore[r]) + 1] = Turn("user", message[r])
            /\ chat_history[Len(histBefore[r]) + 2] = Turn("assistant", response[r].message)
            /\ token_count = tokBefore[r] + response[r].token_count
            /\ (token_count > tokBefore[r] <=> response[r].token_count > 0)

C3_Witness ==
    \E r \in Runs :
        /\ Ended(r, "DONE")
        /\ histBefore[r] # << >>
        /\ tokBefore[r] > 0
        /\ response[r].token_count > 0

\* C4: no exception leaves process; a run in which the backend or the
\* bookkeeping raised ends with an ERROR update and then returns normally.
FailureRaised(r) ==
    \/ Logged(r, "reply", "analysis", {"raise", "nondict"})
    \/ Logged(r, "reply", "plan", {"raise"})
    \/ Logged(r, "reply", "final", {"raise", "no_message", "bad_cost"})

C4_NoExceptionEscapes ==
    \A r \in Runs :
        /\ ~escaped[r]
        /\ (FailureRaised(r) => Ended(r, "ERROR"))

C4_Witness ==
    \E r \in Runs :
        /\ Drained(r)
        /\ Logged(r, "reply", "final", {"raise"})
        /\ Last(updates[r]).status = "ERROR"

\* C5: a terminal update (DONE or ERROR) is the last update of its run, so a
\* run holds at most one of them, and a run that has ended holds exactly one.
TerminalAt(r) == { i \in 1..Len(updates[r]) : Terminal(updates[r][i]) }

C5_OneTerminalLast ==
    \A r \in Runs :
        /\ \A i \in TerminalAt(r) : i = Len(updates[r])
        /\ (pc[r] \in {"yield_done", "yield_error", "finished"} <=> Cardinality(TerminalAt(r)) = 1)

C5_Witness ==
    \E r \in Runs :
        /\ Drained(r)
        /\ Len(updates[r]) >= 5
        /\ Last(updates[r]).status = "ERROR"
        /\ Cardinality(TerminalAt(r)) = 1

\* C6 (as claimed): once the stream is drained, get_result().success is true
\* exactly when the last update was DONE, and get_result().error is set
\* exactly when the last update was ERROR.
C6_ResultAgreesWithTerminal ==
    \A r \in Runs :
        Drained(r) =>
            /\ (GetResult.success <=> Last(updates[r]).status = "DONE")
            /\ (GetResult.error # None <=> Last(updates[r]).status = "ERROR")

\* C7 (as claimed): in a drained run with a non-empty plan, each entry of
\* which names a tool, the tool names of the "Executed <name>" updates are
\* the names of the plan, in plan order, and there are as many of them.
IsExecuted(u) == u.task.text = "Executed"
ExecutedNames(r) ==
    LET ex == SelectSeq(updates[r], IsExecuted)
    IN  [i \in 1..Len(ex) |-> ex[i].task.names[1]]

C7_ExecutedMatchesPlan ==
    \A r \in Runs :
        (Drained(r) /\ tools_to_use[r] # << >> /\ ~JoinRaises(tools_to_use[r])) =>
            /\ Len(ExecutedNames(r)) = Len(tools_to_use[r])
            /\ ExecutedNames(r) = NamesOf(tools_to_use[r])

\* C8: _execute_tool never raises.  Every call of it ends with a result; for
\* a name that is not registered and for a capability that raises, the
\* result has success false, result None and an error text; for a
\* capability that returns, success true, the payload, and error None.
IsDone(e) == e.ev = "done"
IsInvoke(e) == e.ev = "invoke"
Dones(r) == SelectSeq(log[r], IsDone)
Registered(name) == \E i \in 1..Len(tools) : tools[i] = name

C8_InvokerNeverRaises ==
    \A r \in Runs :
        /\ Len(Dones(r)) = Len(tool_results[r])
        /\ Len(SelectSeq(log[r], IsInvoke))
              = Cardinality({ i \in 1..Len(Dones(r)) : Dones(r)[i].out # "notfound" })
                  + (IF pc[r] = "await_tool" THEN 1 ELSE 0)
        /\ \A i \in 1..Len(updates[r]) :
              updates[r][i].error \notin {ErrorMsg("ValueError"), ErrorMsg("tool failed")}
        /\ \A i \in 1..Len(tool_results[r]) :
              LET res == tool_results[r][i]
                  d == Dones(r)[i]
              IN  /\ ~res.escapes
                  /\ (d.out = "notfound" <=> ~Registered(d.name))
                  /\ d.out \in {"notfound", "raises"} =>
                        (~res.success /\ res.result = None /\ res.error # None)
                  /\ d.out = "returns" =>
                        (res.success /\ res.result = "payload" /\ res.error = None)

C8_Witness ==
    \E r \in Runs :
        /\ Len(tool_results[r]) = 2
        /\ Dones(r)[1].out = "raises"
        /\ ~tool_results[r][1].success
        /\ Dones(r)[2].out = "notfound"
        /\ tool_results[r][2].error = "Tool not found"

\* C9: a reply to the analysis prompt that is no JSON gives the default
\* classification: the next update is "Generating response", the planner is
\* not run and no tool is invoked.  A reply to the planning prompt that is
\* no JSON gives the empty plan: the next update is "Generating response"
\* and no tool is invoked.  Neither makes the run raise.
GeneratingUpdate == UpdateStatus("THINKING", Task("Generating response", NoSeq), NoError)
NoToolActivity(r) ==
    /\ tools_to_use[r] = << >>
    /\ tool_results[r] = << >>
    /\ \A j \in 1..Len(log[r]) : log[r][j].ev \notin {"invoke", "done"}

C9_MalformedReplyFallsBack ==
    \A r \in Runs : \A i \in 1..Len(log[r]) :
        LET e == log[r][i]
        IN  (e.ev = "reply" /\ e.out = "malformed") =>
               /\ e.name \in {"analysis", "plan"}
               /\ Len(updates[r]) > e.at
               /\ updates[r][e.at + 1] = GeneratingUpdate
               /\ NoToolActivity(r)
               /\ ~escaped[r]
               /\ e.name = "analysis" =>
                     \A j \in 1..Len(log[r]) :
                         /\ log[r][j].ev # "plan"
                         /\ log[r][j].name # "plan"

C9_Witness ==
    \E r \in Runs :
        /\ Logged(r, "reply", "plan", {"malformed"})
        /\ Ended(r, "DONE")

\* C10: on an instance whose self.agent is None the analyzer returns the
\* default classification without a backend submission, the update after
\* the first is "Generating response", and the planner is never run.
C10_NoBackendNoPlanner ==
    ~agent =>
        \A r \in Runs :
            /\ \A j \in 1..Len(log[r]) : log[r][j].ev \notin {"submit", "reply", "plan"}
            /\ \A i \in 1..Len(updates[r]) : updates[r][i].task.text # "Planning tool usage"
            /\ Len(updates[r]) >= 2 =>
                  /\ updates[r][2] = GeneratingUpdate
                  /\ Logged(r, "analyze", None, {"default"})

C10_Witness ==
    /\ ~agent
    /\ \E r \in Runs : Drained(r) /\ Len(updates[r]) = 3

\* C11: the statuses of a run follow the state machine.  The first update is
\* THINKING ("Understanding your request"); an EXECUTING update comes only
\* after THINKING ("Planning tool usage") and never after THINKING
\* ("Generating response"); DONE comes only directly after THINKING
\* ("Generating response"); ERROR comes only after an update that is not
\* terminal; IDLE and WAITING are never emitted.
TaskAt(r, i) == updates[r][i].task.text
IsThinking(r, i, text) == updates[r][i].status = "THINKING" /\ TaskAt(r, i) = text

C11_StatusStateMachine ==
    \A r \in Runs : \A i \in 1..Len(updates[r]) :
        LET u == updates[r][i]
        IN  /\ u.status \in {"THINKING", "EXECUTING", "DONE", "ERROR"}
            /\ i = 1 => IsThinking(r, 1, "Understanding your request")
            /\ u.status = "EXECUTING" =>
                  /\ \E j \in 1..(i - 1) : IsThinking(r, j, "Planning tool usage")
                  /\ \A j \in 1..(i - 1) : ~IsThinking(r, j, "Generating response")
            /\ u.status = "DONE" =>
                  i > 1 /\ IsThinking(r, i - 1, "Generating response")
            /\ u.status = "ERROR" => i > 1 /\ ~Terminal(updates[r][i - 1])

C11_Witness ==
    \E r \in Runs :
        /\ Drained(r)
        /\ \E i \in 1..Len(updates[r]) : updates[r][i].status = "EXECUTING"
        /\ Last(updates[r]).status = "DONE"

\* C12 (as claimed): a drained run on an agent with no tools registered in
\* which no backend call fails has the stream THINKING ("Understanding your
\* request"), THINKING ("Generating response"), DONE, and the history gains
\* exactly two turns.
UnderstandingUpdate ==
    UpdateStatus("THINKING", Task("Understanding your request", NoSeq), NoError)
PlanningUpdate == UpdateStatus("THINKING", Task("Planning tool usage", NoSeq), NoError)
DoneUpdate == UpdateStatus("DONE", NoTask, NoError)
NoBackendFailure(r) ==
    \A j \in 1..Len(log[r]) : ~(log[r][j].ev = "reply" /\ log[r][j].out = "raise")

C12_NoToolsThreeUpdates ==
    \A r \in Runs :
        (Drained(r) /\ tools = << >> /\ agent /\ NoBackendFailure(r)
                    /\ ~Logged(r, "reply", "analysis", {"nondict"})
                    /\ ~Logged(r, "reply", "final", {"no_message", "bad_cost"})) =>
            /\ updates[r] = << UnderstandingUpdate, GeneratingUpdate, DoneUpdate >>
            /\ Len(chat_history) = Len(histBefore[r]) + 2

\* C12 (amended): a drained run on an agent with no tools registered that
\* ends in DONE has the stream THINKING ("Understanding your request"),
\* THINKING ("Generating response"), DONE when the analyzer's classification
\* does not ask for tools, and the same stream with THINKING ("Planning tool
\* usage") in second place when it does; the planner then returns the empty
\* plan without a backend submission.  Either way no EXECUTING update is
\* emitted and the history gains exactly two turns.
C12_NoToolsNoExecuting ==
    \A r \in Runs :
        (Drained(r) /\ tools = << >> /\ Last(updates[r]).status = "DONE") =>
            /\ IF Logged(r, "reply", "analysis", {"needs_true"})
               THEN /\ updates[r] = << UnderstandingUpdate, PlanningUpdate,
                                       GeneratingUpdate, DoneUpdate >>
                    /\ Logged(r, "plan", None, {"skipped"})
                    /\ ~Logged(r, "submit", "plan", {None})
               ELSE updates[r] = << UnderstandingUpdate, GeneratingUpdate, DoneUpdate >>
            /\ Len(chat_history) = Len(histBefore[r]) + 2
            /\ SubSeq(chat_history, 1, Len(histBefore[r])) = histBefore[r]

C12_Witness ==
    \E r \in Runs :
        /\ Drained(r)
        /\ tools = << >>
        /\ Len(updates[r]) = 4
        /\ updates[r][2] = PlanningUpdate
        /\ Last(updates[r]).status = "DONE"

\* C13 (as claimed): token_count grows by the cost that each reply of the
\* backend reports, whether it answers the analysis prompt, the planning
\* prompt or the final submission, and it never decreases.
C13_EveryCallCounted ==
    [][\A r \in Runs :
          /\ token_count' >= token_count
          /\ (reported'[r] # reported[r] /\ reported'[r].name # None) =>
                token_count' = token_count + reported'[r].cost]_vars

\* C14 (as claimed): chat_history holds at most memory_size turns.
C14_HistoryBounded == Len(chat_history) <= MemorySize

\* C15: the error field of an update is set exactly when its status is
\* ERROR; it then is a non-empty text that ends with the text of the
\* exception that aborted the run.  The DONE update has neither task nor
\* error.
ExceptionTexts == {"backend failure", "AttributeError", "TypeError", "KeyError"}

C15_ErrorFieldIffError ==
    \A r \in Runs : \A i \in 1..Len(updates[r]) :
        LET u == updates[r][i]
        IN  /\ u.error # NoSeq <=> u.status = "ERROR"
            /\ u.status = "ERROR" =>
                  /\ Len(u.error) = 2
                  /\ u.error[1] = "Error processing message: "
                  /\ u.error[2] \in ExceptionTexts
                  /\ u.error[2] = "backend failure" <=> ~NoBackendFailure(r)
                  /\ u.error[2] = "KeyError" <=> JoinRaises(tools_to_use[r])
            /\ u.status = "DONE" => u.task = Task(None, << >>) /\ u.error = NoSeq

C15_Witness ==
    \E r \in Runs :
        /\ Drained(r)
        /\ Last(updates[r]).status = "ERROR"
        /\ Last(updates[r]).error[2] = "backend failure"

\* C16: within one run, no other run being in flight, the elapsed field of
\* each update is strictly greater than that of the update before it (every
\* read of the clock gives a later time than the read before).
C16_ElapsedIncreases ==
    \A r \in Runs :
        /\ Len(elapsed[r]) = Len(updates[r])
        /\ \A i \in 1..(Len(elapsed[r]) - 1) : elapsed[r][i] < elapsed[r][i + 1]

C16_Witness ==
    \E r \in Runs : Drained(r) /\ Len(elapsed[r]) >= 5 /\ elapsed[r][1] < elapsed[r][5]

\* C17: with a non-empty plan whose entries are named, exactly one
\* EXECUTING ("Using tools: ...") update is emitted; it names the planned
\* tools in plan order and precedes every tool activity.  Each EXECUTING
\* ("Executed <name>") update follows the completion of that tool's call.
\* THINKING ("Generating response") and the final submission come only
\* after every planned tool has been attempted.
UsingAt(r) == { i \in 1..Len(updates[r]) : TaskAt(r, i) = "Using tools" }
ExecutedUpTo(r, i) == Cardinality({ j \in 1..i : TaskAt(r, j) = "Executed" })
DonesBefore(r, i) == Cardinality({ j \in 1..Len(Dones(r)) : Dones(r)[j].at < i })

C17_ToolUpdatesInOrder ==
    \A r \in Runs :
        LET plan == tools_to_use[r]
        IN  /\ Cardinality(UsingAt(r)) <= 1
            /\ (plan # << >> /\ ~JoinRaises(plan)) =>
                  \E u \in UsingAt(r) :
                      /\ updates[r][u].status = "EXECUTING"
                      /\ updates[r][u].task.names = [i \in 1..Len(plan) |-> plan[i].name]
                      /\ \A j \in 1..Len(log[r]) :
                            log[r][j].ev \in {"invoke", "done"} => log[r][j].at >= u
            /\ \A i \in 1..Len(updates[r]) :
                  TaskAt(r, i) = "Executed" =>
                      LET n == ExecutedUpTo(r, i)
                      IN  /\ Len(Dones(r)) >= n
                          /\ Dones(r)[n].name = updates[r][i].task.names[1]
                          /\ Dones(r)[n].at = i - 1
                          /\ plan[n].name = Dones(r)[n].name
            /\ plan # << >> =>
                  /\ \A g \in 1..Len(updates[r]) :
                        TaskAt(r, g) = "Generating response" =>
                            DonesBefore(r, g) = Len(plan)
                  /\ \A j \in 1..Len(log[r]) :
                        (log[r][j].ev = "submit" /\ log[r][j].name = "final") =>
                            /\ TaskAt(r, log[r][j].at) = "Generating response"
                            /\ Len(Dones(r)) = Len(plan)

C17_Witness ==
    \E r \in Runs :
        /\ Drained(r)
        /\ Len(tools_to_use[r]) = 2
        /\ tools_to_use[r][1].name # tools_to_use[r][2].name
        /\ Logged(r, "submit", "final", {None})
        /\ Last(updates[r]).status = "DONE"

\* C18: a run whose consumer stopped asking right after the k-th
\* EXECUTING ("Executed ...") update has attempted exactly the first k
\* planned tools and no other, has made no final submission, and has left
\* chat_history and token_count as they were when it started.
Invokes(r) == SelectSeq(log[r], IsInvoke)

C18_StoppedRunStops ==
    \A r \in Runs :
        (pc[r] = "cancelled" /\ TaskAt(r, Len(updates[r])) = "Executed") =>
            LET k == ExecutedUpTo(r, Len(updates[r]))
            IN  /\ Len(Dones(r)) = k
                /\ Len(tool_results[r]) = k
                /\ k <= Len(tools_to_use[r])
                /\ \A i \in 1..k : Dones(r)[i].name = tools_to_use[r][i].name
                /\ Len(Invokes(r))
                      = Cardinality({ i \in 1..k : Dones(r)[i].out # "notfound" })
                /\ ~Logged(r, "submit", "final", {None})
                /\ chat_history = histBefore[r]
                /\ token_count = tokBefore[r]

C18_Witness ==
    \E r \in Runs :
        /\ pc[r] = "cancelled"
        /\ TaskAt(r, Len(updates[r])) = "Executed"
        /\ ExecutedUpTo(r, Len(updates[r])) = 1
        /\ Len(tools_to_use[r]) = 2
        /\ Dones(r)[1].out = "returns"
        /\ histBefore[r] # << >>

\* C19: the tools a run attempts are the entries of its plan, in plan order,
\* each at most once: there are no more attempts than entries, the i-th
\* attempt is for the i-th entry, and the capability invoked is the one
\* registered under that entry's name.
IsAttempt(e) == e.ev = "invoke" \/ (e.ev = "done" /\ e.out = "notfound")
Attempts(r) == SelectSeq(log[r], IsAttempt)

C19_PlannedToolsOnce ==
    \A r \in Runs :
        /\ Len(Attempts(r)) <= Len(tools_to_use[r])
        /\ \A i \in 1..Len(Attempts(r)) :
              LET e == Attempts(r)[i]
              IN  /\ e.name = tools_to_use[r][i].name
                  /\ e.ev = "invoke" =>
                        (e.k \in 1..Len(tools) /\ tools[e.k] = e.name)

C19_Witness ==
    \E r \in Runs :
        /\ Drained(r)
        /\ Len(Invokes(r)) = 2
        /\ Invokes(r)[1].name = Invokes(r)[2].name
        /\ Len(tools_to_use[r]) = 2

\* C20: a run has at most one collaborator call in flight.  Every call
\* started (a backend submission, a tool capability) has completed before
\* the next one starts; the final submission starts only after the last
\* planned tool has completed.
IsStart(e) == e.ev \in {"invoke", "submit"}
IsEnd(e) == e.ev = "reply" \/ (e.ev = "done" /\ e.out # "notfound")
InFlight(r, n) ==
    Cardinality({ j \in 1..n : IsStart(log[r][j]) })
        - Cardinality({ j \in 1..n : IsEnd(log[r][j]) })

C20_OneCallInFlight ==
    \A r \in Runs :
        /\ \A n \in 0..Len(log[r]) : InFlight(r, n) \in {0, 1}
        /\ InFlight(r, Len(log[r])) = 1
              <=> pc[r] \in {"await_analysis", "await_plan", "await_tool", "await_final"}
        /\ \A n \in 1..Len(log[r]) :
              IsEnd(log[r][n]) => (n > 1 /\ IsStart(log[r][n - 1]))
        /\ \A n \in 1..Len(log[r]) :
              (log[r][n].ev = "submit" /\ log[r][n].name = "final") =>
                  Cardinality({ j \in 1..(n - 1) : IsAttempt(log[r][j]) })
                      = Len(tools_to_use[r])

C20_Witness ==
    \E r \in Runs :
        /\ Drained(r)
        /\ Len(Invokes(r)) = 2
        /\ Logged(r, "reply", "final", {"ok"})

\* C21: chat_history is append-only.  In every step, of a run that goes on
\* to end in DONE or in ERROR alike, the history before the step is a prefix
\* of the history after it: no turn is edited, reordered or removed.
IsPrefix(s, t) == Len(s) <= Len(t) /\ SubSeq(t, 1, Len(s)) = s

C21_HistoryAppendOnly == [][IsPrefix(chat_history, chat_history')]_vars

C21_Witness ==
    \E r \in Runs :
        /\ Ended(r, "ERROR")
        /\ Len(histBefore[r]) >= 2
        /\ Len(chat_history) > Len(histBefore[r])
        /\ chat_history[1].content # chat_history[Len(chat_history)].content

\* C22: a run that ends in ERROR leaves token_count as it was when the run
\* started, whichever step raised.
C22_ErroredRunKeepsTokens ==
    \A r \in Runs : Ended(r, "ERROR") => token_count = tokBefore[r]

C22_Witness ==
    \E r \in Runs :
        /\ Ended(r, "ERROR")
        /\ Logged(r, "reply", "final", {"no_message"})
        /\ response[r].token_count > 0
        /\ tokBefore[r] > 0
        /\ token_count = tokBefore[r]

\* C23: on an agent with no tools registered the planner returns the empty
\* plan without a backend submission.  A run there makes at most two
\* submissions, for the analysis and for the final response, invokes no tool
\* and yields no EXECUTING update, also when the classification asks for
\* tools.
IsSubmit(e) == e.ev = "submit"
Submits(r) == SelectSeq(log[r], IsSubmit)

C23_NoToolsNoPlanSubmission ==
    tools = << >> =>
        \A r \in Runs :
            /\ Len(Submits(r)) <= 2
            /\ \A i \in 1..Len(Submits(r)) : Submits(r)[i].name \in {"analysis", "final"}
            /\ \A i, j \in 1..Len(Submits(r)) :
                  Submits(r)[i].name = Submits(r)[j].name => i = j
            /\ NoToolActivity(r)
            /\ \A i \in 1..Len(updates[r]) : updates[r][i].status # "EXECUTING"
            /\ Logged(r, "reply", "analysis", {"needs_true"}) =>
                  (pc[r] = "yield_planning" \/ Logged(r, "plan", None, {"skipped"}))

C23_Witness ==
    \E r \in Runs :
        /\ tools = << >>
        /\ Logged(r, "reply", "analysis", {"needs_true"})
        /\ Logged(r, "plan", None, {"skipped"})
        /\ Len(Submits(r)) = 2
        /\ Ended(r, "DONE")

\* C24 (as claimed): get_result().message is "" on an empty history and
\* otherwise the content of the last assistant turn; after a run that ended
\* in DONE it is that run's reply text, after a run that ended in ERROR it
\* is the reply text of the last run before it that ended in DONE.
IsAssistant(t) == t.role = "assistant"
LastAssistant(hist) ==
    LET replies == SelectSeq(hist, IsAssistant)
    IN  IF replies = << >> THEN "" ELSE replies[Len(replies)].content

C24_MessageIsLastAssistant ==
    /\ chat_history = << >> => GetResult.message = ""
    /\ chat_history # << >> => GetResult.message = LastAssistant(chat_history)
    /\ \A r \in Runs :
          /\ Ended(r, "DONE") => GetResult.message = response[r].message
          /\ Ended(r, "ERROR") => GetResult.message = LastAssistant(histBefore[r])

\* C25 (as claimed): under any interleaving of runs on the one instance,
\* every user turn of the history is directly followed by the assistant turn
\* of the same run, and token_count has grown by the sum of the reply costs
\* of the runs that ended in DONE.
RECURSIVE SumCosts(_)
SumCosts(S) ==
    IF S = {} THEN 0
    ELSE LET r == CHOOSE x \in S : TRUE
         IN  response[r].token_count + SumCosts(S \ {r})

C25_CommitIsAtomic ==
    /\ \A i \in 1..Len(chat_history) :
          chat_history[i].role = "user" =>
              /\ i < Len(chat_history)
              /\ chat_history[i + 1].role = "assistant"
              /\ \A r \in Runs :
                    message[r] = chat_history[i].content =>
                        chat_history[i + 1].content = response[r].message
    /\ nruns = Cardinality({ r \in Runs : pc[r] # "idle" }) =>
          token_count = SumCosts({ r \in Runs : Ended(r, "DONE") })

\* ---------------------------------------------------------------- C26
Submitted(r) == final_turn[r] # NoTurn
TurnsOf(r) == SubSeq(chat_history, Len(histBefore[r]) + 1, Len(histBefore[r]) + 2)
SameRequest(r1, r2) ==
    /\ r1 # r2
    /\ message[r1] # None
    /\ message[r1] = message[r2]
    /\ tools_to_use[r1] = tools_to_use[r2]

\* C26: tool results never influence the final submission or the recorded
\* turns: two runs with the same message and the same plan, whatever their
\* tools returned or raised, submit the same final turn, whose content is
\* the user's message, and, given the same reply, append the same two turns.
C26_ToolResultsDoNotInfluence ==
    \A r1, r2 \in Runs :
        SameRequest(r1, r2) =>
            /\ (Submitted(r1) /\ Submitted(r2)) =>
                  /\ final_turn[r1] = final_turn[r2]
                  /\ final_turn[r1].content = message[r1]
            /\ (Ended(r1, "DONE") /\ Ended(r2, "DONE")
                   /\ response[r1].message = response[r2].message) =>
                  /\ TurnsOf(r1) = TurnsOf(r2)
                  /\ TurnsOf(r1) = << Turn("user", message[r1]),
                                      Turn("assistant", response[r1].message) >>

C26_Witness ==
    /\ SameRequest(1, 2)
    /\ tools_to_use[1] # << >>
    /\ Ended(1, "DONE") /\ Ended(2, "DONE")
    /\ tool_results[1] # tool_results[2]
    /\ Submitted(1) /\ Submitted(2)

\* ---------------------------------------------------------------- C27
NoBackendUpdates ==
    << UnderstandingUpdate, GeneratingUpdate,
       UpdateStatus("ERROR", NoTask, ErrorMsg("AttributeError")) >>

\* C27: on an instance whose self.agent is None no run ends in DONE: the
\* updates of a run are the first updates of [THINKING "Understanding your
\* request", THINKING "Generating response", ERROR], all three once the run
\* has ended, and chat_history and token_count keep their initial values.
C27_NoBackendEndsInError ==
    ~agent =>
        /\ chat_history = << >>
        /\ token_count = 0
        /\ \A r \in Runs :
              /\ IsPrefix(updates[r], NoBackendUpdates)
              /\ ~Ended(r, "DONE")
              /\ (pc[r] \in {"yield_error", "finished"} /\ message[r] # None) =>
                    /\ updates[r] = NoBackendUpdates
                    /\ chat_history = histBefore[r]
                    /\ token_count = tokBefore[r]

C27_Witness ==
    /\ ~agent
    /\ nruns = 2
    /\ \E r \in Runs : pc[r] = "yield_error" /\ updates[r] = NoBackendUpdates

\* ---------------------------------------------------------------- C28
Matches(name) == { i \in 1..Len(tools) : tools[i] = name }

\* C28: with several tools registered under one name, the capability that
\* is invoked is that of the first tool registered under the name, never
\* that of a later one.
C28_FirstOfDuplicates ==
    \A r \in Runs : \A j \in 1..Len(log[r]) :
        log[r][j].ev = "invoke" =>
            /\ log[r][j].k \in Matches(log[r][j].name)
            /\ \A i \in Matches(log[r][j].name) : log[r][j].k <= i

C28_Witness ==
    /\ Cardinality(Matches("a")) = 2
    /\ \E r \in Runs : \E j \in 1..Len(log[r]) :
          /\ log[r][j].ev = "invoke"
          /\ log[r][j].name = "a"
          /\ log[r][j].k = 1
          /\ Ended(r, "DONE")

====
